---------------------------- MODULE Spec2Model ----------------------------
(***************************************************************************)
(* Model of the live-reload transcoding-profile plugin                     *)
(* (src/unnamed/part_000): the settings store of the host, the plugin's    *)
(* process-wide context, the profiles and encoder priorities it registers  *)
(* with the host's transcoding manager, and the operations register,       *)
(* updateTranscodingProfiles, the settings-change listener and unregister. *)
(* The two variants of src/src/main.ts follow further down: the handler of *)
(* the transcoding hook, and the single-profile-name plugin whose builders *)
(* fetch the settings when they are called.                                *)
(*                                                                         *)
(* JavaScript strings are sequences of one-character strings, so that      *)
(* parsing, formatting and concatenation are computed, not assumed.        *)
(* An `async` function runs without interruption between two `await`s;     *)
(* each action below is one such uninterrupted stretch of the code.        *)
(***************************************************************************)
EXTENDS Integers, Sequences, FiniteSets, TLC

(***************************************************************************)
(* Bounds of the model.                                                    *)
(***************************************************************************)
\* Number of entries of the resolution catalogue the model walks, starting
\* at FirstTier.
NumTiers == 2
\* Number of times the administrator saves the settings form in a run.
MaxSaves == 2

(***************************************************************************)
(* String literals of the source.                                          *)
(***************************************************************************)
S_aac == <<"a", "a", "c">>
S_libopus == <<"l", "i", "b", "o", "p", "u", "s">>
S_libx264 == <<"l", "i", "b", "x", "2", "6", "4">>
S_h264_qsv == <<"h", "2", "6", "4", "_", "q", "s", "v">>
S_default == <<"d", "e", "f", "a", "u", "l", "t">>
S_custom == <<"c", "u", "s", "t", "o", "m", "-">>
S_dash == <<"-">>
S_b_a_128k == <<"-", "b", ":", "a", " ", "1", "2", "8", "k">>
S_0 == <<"0">>
S_02 == <<"0", "2">>
S_threads == <<"-", "t", "h", "r", "e", "a", "d", "s">>
S_hwaccel == <<"-", "h", "w", "a", "c", "c", "e", "l", " ", "a", "u", "t", "o">>
S_crf_fast == <<"-", "c", "r", "f", " ", "2", "3", " ", "-", "p", "r", "e", "s", "e", "t", " ", "f", "a", "s", "t", " ", "-", "p", "i", "x", "_", "f", "m", "t", " ", "y", "u", "v", "4", "2", "0", "p">>
S_crf_medium == <<"-", "c", "r", "f", " ", "2", "3", " ", "-", "p", "r", "e", "s", "e", "t", " ", "m", "e", "d", "i", "u", "m", " ", "-", "p", "i", "x", "_", "f", "m", "t", " ", "y", "u", "v", "4", "2", "0", "p">>
S_x264opts == <<"-", "x", "2", "6", "4", "o", "p", "t", "s", " ", "\"", "a", " ", "b", "\"">>

\* const resolutions = [ '144p', ..., '2160p' ]
resolutions ==
  << <<"1", "4", "4", "p">>,
     <<"2", "4", "0", "p">>,
     <<"3", "6", "0", "p">>,
     <<"4", "8", "0", "p">>,
     <<"7", "2", "0", "p">>,
     <<"1", "0", "8", "0", "p">>,
     <<"1", "4", "4", "0", "p">>,
     <<"2", "1", "6", "0", "p">> >>

\* The tiers the loops of the model walk, by their index in resolutions:
\* a window of the catalogue that starts at '720p', the first tier that is
\* enabled by default.
FirstTier == CHOOSE i \in 1..Len(resolutions) : resolutions[i] = <<"7", "2", "0", "p">>

LastTier == FirstTier + NumTiers - 1

Tiers == FirstTier..LastTier

\* The priority every registered encoder gets.
PRIORITY == 2000

(***************************************************************************)
(* JavaScript primitives the code relies on.                               *)
(***************************************************************************)
Digits == <<"0", "1", "2", "3", "4", "5", "6", "7", "8", "9">>

IsDigit(c) == \E d \in 1..10 : Digits[d] = c

DigitValue(c) == (CHOOSE d \in 1..10 : Digits[d] = c) - 1

\* \s of the regular expression, and the white space parseInt skips.
IsSpace(c) == c \in {" ", "\t", "\n"}

IsQuote(c) == c \in {"\"", "'"}

RECURSIVE SkipSpaces(_, _)
SkipSpaces(s, i) ==
  IF i <= Len(s) /\ IsSpace(s[i]) THEN SkipSpaces(s, i + 1) ELSE i

RECURSIVE ReadDigits(_, _, _)
\* The value of the longest run of decimal digits of s from position i on,
\* continuing the value n read so far.
ReadDigits(s, i, n) ==
  IF i <= Len(s) /\ IsDigit(s[i])
  THEN ReadDigits(s, i + 1, 10 * n + DigitValue(s[i]))
  ELSE n

\* parseInt(s, 10) || 0 : white space, an optional sign, then the longest
\* run of digits; NaN (no digit) and 0 both give 0.
ParseIntOrZero(s) ==
  LET i == SkipSpaces(s, 1)
      neg == i <= Len(s) /\ s[i] = "-"
      j == IF i <= Len(s) /\ s[i] \in {"-", "+"} THEN i + 1 ELSE i
  IN IF j <= Len(s) /\ IsDigit(s[j])
     THEN (IF neg THEN 0 - ReadDigits(s, j, 0) ELSE ReadDigits(s, j, 0))
     ELSE 0

RECURSIVE NatToString(_)
\* Number.prototype.toString() of a natural number.
NatToString(n) ==
  IF n < 10 THEN <<Digits[n + 1]>>
  ELSE NatToString(n \div 10) \o <<Digits[(n % 10) + 1]>>

\* Position of the first c in s at or after position i, 0 when there is none.
RECURSIVE IndexFrom(_, _, _)
IndexFrom(s, c, i) ==
  IF i > Len(s) THEN 0
  ELSE IF s[i] = c THEN i
  ELSE IndexFrom(s, c, i + 1)

RECURSIVE MatchAll(_, _, _, _)
\* optionsStr.match(/([^\s"']+|"([^"]*)"|'([^']*)')+/g): the matches, left
\* to right.  cur is the match being extended (empty: none is open), out
\* the matches already closed.  A match is a run of items, each a run of
\* plain characters or a closed quoted stretch WITH its quotes; white space
\* and a quote that is never closed end the match and are skipped.
MatchAll(s, i, cur, out) ==
  LET closed == IF cur = <<>> THEN out ELSE Append(out, cur)
  IN IF i > Len(s) THEN closed
     ELSE IF IsSpace(s[i]) THEN MatchAll(s, i + 1, <<>>, closed)
     ELSE IF IsQuote(s[i])
          THEN LET j == IndexFrom(s, s[i], i + 1)
               IN IF j = 0 THEN MatchAll(s, i + 1, <<>>, closed)
                  ELSE MatchAll(s, j + 1, cur \o SubSeq(s, i, j), out)
     ELSE MatchAll(s, i + 1, Append(cur, s[i]), out)

\* The option strings that occur in the model, and their matches, tabulated
\* once: parseOptionsString is a pure function, applied to the same few
\* strings in every step.
OptionStrings == {S_b_a_128k, S_hwaccel, S_crf_fast, S_crf_medium, S_x264opts}

MatchTable == [s \in OptionStrings |-> MatchAll(s, 1, <<>>, <<>>)]

\* function parseOptionsString (optionsStr: string): string[]
parseOptionsString(optionsStr) ==
  IF optionsStr = <<>> THEN <<>>
  ELSE IF optionsStr \in OptionStrings THEN MatchTable[optionsStr]
  ELSE MatchAll(optionsStr, 1, <<>>, <<>>)


(***************************************************************************)
(* Settings.  A settings mapping is a function from setting keys to raw    *)
(* values; a key that is absent from the mapping reads as undefined.  The  *)
(* key `resolution_${res}_<field>` is the pair <<i, field>> with i the     *)
(* index of res in resolutions, a global key the pair <<0, name>>.         *)
(***************************************************************************)
GlobalFields == {"audio_codec", "audio_params", "transcode_threads"}

TierFields == {"enabled", "codec", "input_params", "codec_params"}

\* pluginContext.settingNames: the names of all registered settings.
settingNames == ({0} \X GlobalFields) \cup (Tiers \X TierFields)

\* The `default` of each registered setting.
DefaultValue(k) ==
  LET i == k[1]
      f == k[2]
  IN CASE f = "audio_codec" -> S_aac
       [] f = "audio_params" -> S_b_a_128k
       [] f = "transcode_threads" -> S_0
       [] f = "enabled" -> (resolutions[i] = resolutions[5] \/ resolutions[i] = resolutions[6])
       [] f = "codec" -> S_libx264
       [] f = "input_params" -> <<>>
       [] f = "codec_params" ->
            IF ParseIntOrZero(resolutions[i]) >= 1080 THEN S_crf_medium ELSE S_crf_fast

\* The values the administrator can give a setting in the model.
Choices(k) ==
  LET f == k[2]
  IN CASE f = "audio_codec" -> {S_aac, S_libopus}
       [] f = "audio_params" -> {S_b_a_128k, <<>>}
       [] f = "transcode_threads" -> {S_0, S_02}
       [] f = "enabled" -> BOOLEAN
       [] f = "codec" -> {S_libx264, S_h264_qsv, <<>>}
       [] f = "input_params" -> {<<>>, S_hwaccel}
       [] f = "codec_params" -> {S_crf_fast, S_x264opts}

\* The mapping with no key: stands for "no settings" in the history
\* variables.
NoSettings == [k \in {} |-> <<>>]

\* settings[key] as a string, `|| dflt` applied: undefined and '' are falsy.
StringOr(settings, k, dflt) ==
  IF k \in DOMAIN settings /\ settings[k] # <<>> THEN settings[k] ELSE dflt

\* settings[`resolution_${res}_enabled`] as boolean, tested for truthiness.
IsEnabled(settings, i) ==
  <<i, "enabled">> \in DOMAIN settings /\ settings[<<i, "enabled">>]

\* const audioCodec = (settings['audio_codec'] as string) || 'aac'
AudioCodec(settings) == StringOr(settings, <<0, "audio_codec">>, S_aac)

\* const audioParams = (settings['audio_params'] as string) || '-b:a 128k'
AudioParams(settings) == StringOr(settings, <<0, "audio_params">>, S_b_a_128k)

\* const transcodeThreads = parseInt(settings['transcode_threads'], 10) || 0
\* (parseInt(undefined) is NaN)
TranscodeThreads(settings) ==
  IF <<0, "transcode_threads">> \in DOMAIN settings
  THEN ParseIntOrZero(settings[<<0, "transcode_threads">>])
  ELSE 0

\* const videoCodec = settings[`resolution_${res}_codec`] as string
\* (undefined and '' are both falsy and never leave the function: <<>>)
VideoCodec(settings, i) == StringOr(settings, <<i, "codec">>, <<>>)

InputParamsStr(settings, i) == StringOr(settings, <<i, "input_params">>, <<>>)

CodecParamsStr(settings, i) == StringOr(settings, <<i, "codec_params">>, <<>>)

\* const profileName = `custom-${res}-${videoCodec || 'default'}`
ProfileName(settings, i) ==
  S_custom \o resolutions[i] \o S_dash
    \o (IF VideoCodec(settings, i) # <<>> THEN VideoCodec(settings, i) ELSE S_default)

\* const threadParams = transcodeThreads > 0 ? ['-threads', n.toString()] : []
ThreadParams(settings) ==
  IF TranscodeThreads(settings) > 0
  THEN <<S_threads, NatToString(TranscodeThreads(settings))>>
  ELSE <<>>

(***************************************************************************)
(* The host's transcoding manager, as far as the plugin drives it: the     *)
(* profiles and the encoder priorities the plugin has registered, in       *)
(* registration order.  A profile's builder returns fixed option lists, so *)
(* the profile is recorded with them; kind tells which of the two          *)
(* addVODProfile calls of the loop registered it.                          *)
(***************************************************************************)
EmptyManager == [profiles |-> <<>>, priorities |-> <<>>]

\* Mutant: the old registrations are not removed.
RemoveNothing(tm) == tm

\* Mutant: only the profiles are removed, the priorities stay.
RemoveProfilesOnly(tm) == [tm EXCEPT !.profiles = <<>>]

\* transcodingManager.removeAllProfilesAndEncoderPriorities()
removeAllProfilesAndEncoderPriorities(tm) == EmptyManager

\* transcodingManager.addVODProfile(encoder, profileName, builder)
addVODProfile(tm, kind, encoder, profileName, inputOptions, outputOptions) ==
  [tm EXCEPT !.profiles =
     Append(@, [kind |-> kind, encoder |-> encoder, profile |-> profileName,
                inputOptions |-> inputOptions, outputOptions |-> outputOptions])]

\* transcodingManager.addVODEncoderPriority(kind, encoder, priority)
addVODEncoderPriority(tm, kind, encoder, priority) ==
  [tm EXCEPT !.priorities =
     Append(@, [kind |-> kind, encoder |-> encoder, priority |-> priority])]

(***************************************************************************)
(* updateTranscodingProfiles, from the removal of the old registrations to *)
(* the end of the loop: no await occurs in it, so it runs in one piece.    *)
(* acc is the transcoding manager together with the lines logged.          *)
(***************************************************************************)
LogLine(acc, level, i) == [acc EXCEPT !.log = Append(@, <<level, i>>)]

\* Mutant: the thread flag and a '-c:v' selector pair are put in front of
\* codecParams in the output options.
RegisterVideoSelectorInOutput(settings, i, tm) ==
  addVODProfile(tm, "video", VideoCodec(settings, i), ProfileName(settings, i),
                parseOptionsString(InputParamsStr(settings, i)),
                ThreadParams(settings)
                  \o << <<"-", "c", ":", "v">>, VideoCodec(settings, i) >>
                  \o parseOptionsString(CodecParamsStr(settings, i)))

\* The video profile of tier i: threadParams and inputParams in front of
\* the input, codecParams behind it.
RegisterVideo(settings, i, tm) ==
  addVODProfile(tm, "video", VideoCodec(settings, i), ProfileName(settings, i),
                ThreadParams(settings) \o parseOptionsString(InputParamsStr(settings, i)),
                parseOptionsString(CodecParamsStr(settings, i)))

\* The audio profile registered beside the video profile of tier i.
RegisterAudio(settings, i, tm) ==
  addVODProfile(tm, "audio", AudioCodec(settings), ProfileName(settings, i),
                <<>>, parseOptionsString(AudioParams(settings)))

\* Mutant: a priority is added only for an encoder that has none yet.
RegisterPrioritiesOnce(settings, i, tm) ==
  LET has(t, kind, encoder) ==
        \E n \in 1..Len(t.priorities) :
          t.priorities[n].kind = kind /\ t.priorities[n].encoder = encoder
      withVideo ==
        IF has(tm, "video", VideoCodec(settings, i)) THEN tm
        ELSE addVODEncoderPriority(tm, "video", VideoCodec(settings, i), PRIORITY)
  IN IF has(withVideo, "audio", AudioCodec(settings)) THEN withVideo
     ELSE addVODEncoderPriority(withVideo, "audio", AudioCodec(settings), PRIORITY)

\* The two addVODEncoderPriority calls of one iteration.
RegisterPriorities(settings, i, tm) ==
  addVODEncoderPriority(
    addVODEncoderPriority(tm, "video", VideoCodec(settings, i), PRIORITY),
    "audio", AudioCodec(settings), PRIORITY)

\* Mutant: the enabled flag is not looked at.
TierIterationIgnoresEnabled(settings, i, acc) ==
  IF VideoCodec(settings, i) = <<>>
  THEN LogLine(acc, "warn", i)
  ELSE LogLine(
         [acc EXCEPT !.tm =
            RegisterPriorities(settings, i,
              RegisterAudio(settings, i, RegisterVideo(settings, i, @)))],
         "info", i)

\* One iteration of `for (const res of resolutions)`: a disabled tier is
\* skipped with an info line, an enabled tier without a codec with a
\* warning.
TierIteration(settings, i, acc) ==
  IF ~IsEnabled(settings, i)
  THEN LogLine(acc, "info", i)
  ELSE IF VideoCodec(settings, i) = <<>>
  THEN LogLine(acc, "warn", i)
  ELSE LogLine(
         [acc EXCEPT !.tm =
            RegisterPriorities(settings, i,
              RegisterAudio(settings, i, RegisterVideo(settings, i, @)))],
         "info", i)

RECURSIVE ResolutionLoop(_, _, _)
ResolutionLoop(settings, i, acc) ==
  IF i > LastTier THEN acc
  ELSE ResolutionLoop(settings, i + 1, TierIteration(settings, i, acc))

\* Lines 35-79: what the manager holds, and what was logged, when the
\* function returns.
UpdateProfiles(settings, tm) ==
  ResolutionLoop(settings, FirstTier,
    [tm |-> removeAllProfilesAndEncoderPriorities(tm), log |-> << <<"info", 0>> >>])

(***************************************************************************)
(* State.                                                                  *)
(***************************************************************************)
VARIABLES
  store,               \* the host's settings store: the saved plugin settings
  ctx,                 \* pluginContext's three managers are set (never reset)
  listening,           \* the onSettingsChange listener is installed
  pc,                  \* register's own updateTranscodingProfiles() call:
                       \* "idle", "awaiting" (getSettings issued), "fetched"
  snapshot,            \* the settings getSettings resolved with
  transcodingManager,  \* the plugin's profiles and encoder priorities
  log,                 \* the lines updateTranscodingProfiles logged when it
                       \* last ran to its end
  outcome,             \* history: how the last register() call ended so far
  fetchFailed,         \* history: its getSettings rejected
  lifecycle,           \* history: "init", "started" (register ran last),
                       \* "stopped" (unregister ran last)
  used,                \* history: the settings of the reload whose
                       \* registrations the manager holds
  overlapped,          \* history: a listener reload ran while register's
                       \* reload was suspended
  repeated,            \* history: the reload that ran last used the same
                       \* settings as the reload before it
  saves,               \* history: number of settings saves so far
  job,                 \* a transcoding job of the host that asks the
                       \* single-profile-name variant for options
  hook                 \* the pending call of the 'on-video-transcoding'
                       \* handler of the hook variant, and what it returned

vars == <<store, ctx, listening, pc, snapshot, transcodingManager, log,
          outcome, fetchFailed, lifecycle, used, overlapped, repeated, saves,
          job, hook>>

\* No job is running.
NoJob ==
  [pc |-> "none", kind |-> "none", resolution |-> 0, atQuery |-> NoSettings,
   inputOptions |-> <<>>, outputOptions |-> <<>>]

\* An options value without profiles: stands for "none".
NoOptions == [input |-> <<>>, profiles |-> <<>>]

\* The handler is not running and has returned nothing.
NoHook ==
  [pc |-> "idle", options |-> NoOptions, config |-> NoSettings,
   result |-> NoOptions, used |-> NoSettings]

\* The store of a fresh installation: every registered setting at its
\* default.
InitialStore == [k \in settingNames |-> DefaultValue(k)]

Init ==
  /\ store = InitialStore
  /\ ctx = FALSE
  /\ listening = FALSE
  /\ pc = "idle"
  /\ snapshot = NoSettings
  /\ transcodingManager = EmptyManager
  /\ log = <<>>
  /\ outcome = "none"
  /\ fetchFailed = FALSE
  /\ lifecycle = "init"
  /\ used = NoSettings
  /\ overlapped = FALSE
  /\ repeated = FALSE
  /\ saves = 0
  /\ job = NoJob
  /\ hook = NoHook

(***************************************************************************)
(* Operations.                                                             *)
(***************************************************************************)
\* register(options), up to the await inside its updateTranscodingProfiles()
\* call: the context is filled, the settings and the listener are
\* registered, the guard of updateTranscodingProfiles passes and
\* getSettings is issued.  One register call is in flight at a time.
Register ==
  /\ lifecycle # "started"
  /\ pc = "idle"
  /\ ctx' = TRUE
  /\ listening' = TRUE
  /\ pc' = "awaiting"
  /\ outcome' = "pending"
  /\ fetchFailed' = FALSE
  /\ lifecycle' = "started"
  /\ overlapped' = FALSE
  /\ UNCHANGED <<store, snapshot, transcodingManager, log, used, repeated, saves,
                 job, hook>>

\* settingsManager.getSettings(settingNames) resolves: the host reads every
\* registered setting from the store.
FetchResolve ==
  /\ pc = "awaiting"
  /\ snapshot' = [k \in settingNames |-> store[k]]
  /\ pc' = "fetched"
  /\ UNCHANGED <<store, ctx, listening, transcodingManager, log, outcome,
                 fetchFailed, lifecycle, used, overlapped, repeated, saves, job, hook>>

\* Mutant: a rejected getSettings is caught, a warning is logged and the
\* profiles are compiled from the registered defaults.
FetchRejectCompilesDefaults ==
  /\ pc = "awaiting"
  /\ pc' = "idle"
  /\ outcome' = "resolved"
  /\ fetchFailed' = TRUE
  /\ LET done == UpdateProfiles(InitialStore, transcodingManager)
     IN /\ transcodingManager' = done.tm
        /\ log' = << <<"warn", 0>> >> \o done.log
  /\ used' = InitialStore
  /\ repeated' = FALSE
  /\ UNCHANGED <<store, ctx, listening, snapshot, lifecycle, overlapped, saves,
                 job, hook>>

\* settingsManager.getSettings(settingNames) rejects: nothing catches it, so
\* updateTranscodingProfiles() and with it register() reject at once; the
\* rest of the function never runs.
FetchReject ==
  /\ pc = "awaiting"
  /\ pc' = "idle"
  /\ outcome' = "rejected"
  /\ fetchFailed' = TRUE
  /\ UNCHANGED <<store, ctx, listening, snapshot, transcodingManager, log,
                 lifecycle, used, overlapped, repeated, saves, job, hook>>

\* Mutant: the function is suspended once more between the removal of the
\* old registrations and the loop that adds the new ones.
ResumeNotAtomic ==
  \/ /\ pc = "fetched"
     /\ transcodingManager' = removeAllProfilesAndEncoderPriorities(transcodingManager)
     /\ used' = snapshot
     /\ pc' = "removed"
     /\ UNCHANGED <<store, ctx, listening, snapshot, log, outcome, fetchFailed,
                    lifecycle, overlapped, repeated, saves, job, hook>>
  \/ /\ pc = "removed"
     /\ LET done == UpdateProfiles(snapshot, transcodingManager)
        IN /\ transcodingManager' = done.tm
           /\ log' = done.log
     /\ used' = snapshot
     /\ snapshot' = NoSettings
     /\ pc' = "idle"
     /\ outcome' = "resolved"
     /\ UNCHANGED <<store, ctx, listening, fetchFailed, lifecycle, overlapped,
                    repeated, saves, job, hook>>

\* The continuation of register's updateTranscodingProfiles() after the
\* await: lines 35-79 with the fetched settings, then register resolves.
Resume ==
  /\ pc = "fetched"
  /\ LET done == UpdateProfiles(snapshot, transcodingManager)
     IN /\ transcodingManager' = done.tm
        /\ log' = done.log
  /\ used' = snapshot
  /\ repeated' = (used # NoSettings /\ used = snapshot)
  /\ snapshot' = NoSettings
  /\ pc' = "idle"
  /\ outcome' = "resolved"
  /\ UNCHANGED <<store, ctx, listening, fetchFailed, lifecycle, overlapped, saves,
                 job, hook>>

\* The settings passed to the listener: all of them, or only the changed one.
Payload(newStore, k, partial) ==
  IF partial THEN [x \in {k} |-> newStore[k]] ELSE newStore

\* The administrator saves setting k with value v (possibly its old value);
\* the host stores it and calls the listener, which runs
\* updateTranscodingProfiles(settings): the settings are given, so the
\* function awaits nothing and runs to its end.
SettingsChange(k, v, partial) ==
  /\ listening
  /\ saves < MaxSaves
  /\ saves' = saves + 1
  /\ store' = [store EXCEPT ![k] = v]
  /\ IF ctx
     THEN LET done == UpdateProfiles(Payload(store', k, partial), transcodingManager)
          IN /\ transcodingManager' = done.tm
             /\ log' = done.log
             /\ used' = Payload(store', k, partial)
             /\ repeated' = (used # NoSettings /\ used = Payload(store', k, partial))
             /\ overlapped' = (overlapped \/ pc # "idle")
     ELSE UNCHANGED <<transcodingManager, log, used, repeated, overlapped>>
  /\ UNCHANGED <<ctx, listening, pc, snapshot, outcome, fetchFailed, lifecycle,
                 job, hook>>

\* unregister(): removes the registrations when the context is set; the
\* context and the listener stay as they are.
Unregister ==
  /\ lifecycle = "started"
  /\ lifecycle' = "stopped"
  /\ transcodingManager' =
       IF ctx THEN removeAllProfilesAndEncoderPriorities(transcodingManager)
       ELSE transcodingManager
  /\ used' = NoSettings
  /\ repeated' = FALSE
  /\ UNCHANGED <<store, ctx, listening, pc, snapshot, log, outcome, fetchFailed,
                 overlapped, saves, job, hook>>

\* The host calls the listener with all the settings of the plugin.
Next ==
  \/ Register
  \/ FetchResolve
  \/ FetchReject
  \/ Resume
  \/ \E k \in settingNames : \E v \in Choices(k) : SettingsChange(k, v, FALSE)
  \/ Unregister

Spec == Init /\ [][Next]_vars

(***************************************************************************)
(* Vocabulary of the properties.                                           *)
(***************************************************************************)
Profiles == transcodingManager.profiles

Priorities == transcodingManager.priorities

\* What the manager holds after one complete reload with `settings` that
\* started from nothing.
FreshTable(settings) == UpdateProfiles(settings, EmptyManager).tm

\* Tier i is enabled and has a video codec in `settings`.
Compiled(settings, i) == IsEnabled(settings, i) /\ VideoCodec(settings, i) # <<>>

\* The compiled tiers of `settings`, in catalogue order.
CompiledTiers(settings) ==
  SelectSeq([n \in 1..NumTiers |-> FirstTier + n - 1],
            LAMBDA i : Compiled(settings, i))

IsPrefix(p, s) == Len(p) <= Len(s) /\ SubSeq(s, 1, Len(p)) = p

\* Every profile name of tier i starts with `custom-${res}-`.
TierPrefix(i) == S_custom \o resolutions[i] \o S_dash

\* The positions of the profiles of the given kind that belong to tier i.
TierProfiles(kind, i) ==
  { n \in 1..Len(Profiles) :
      Profiles[n].kind = kind /\ IsPrefix(TierPrefix(i), Profiles[n].profile) }

(***************************************************************************)
(* C1  Atomic visibility.  In every state, so at every point where a job   *)
(* can look at the registrations, also while register's reload is          *)
(* suspended, the manager holds exactly the complete table of one reload   *)
(* (the one that ran last), or nothing when none ran since the last        *)
(* unregister: never a part of a table, never entries of two reloads.      *)
(***************************************************************************)
C1_AtomicVisibility ==
  transcodingManager =
    IF used = NoSettings THEN EmptyManager ELSE FreshTable(used)

\* A reload is in progress (suspended on getSettings or about to continue)
\* while the complete table of an earlier reload is on display.
C1_Witness ==
  /\ pc \in {"awaiting", "fetched"}
  /\ used # NoSettings
  /\ Profiles # <<>>

(***************************************************************************)
(* C2  Last writer wins.  When a listener reload ran while register's      *)
(* reload was suspended, the step in which register's reload continues     *)
(* leaves exactly the table compiled from the settings it fetched: the     *)
(* reload that completes last replaces the other's table as a whole.       *)
(***************************************************************************)
C2_LastWriterWins ==
  [][ (overlapped /\ pc = "fetched" /\ pc' = "idle")
        => transcodingManager' = FreshTable(snapshot) ]_vars

\* Both reloads have completed, register's last, and it compiled another
\* table than the listener's reload would have left.
C2_Witness ==
  /\ overlapped
  /\ pc = "idle"
  /\ outcome = "resolved"
  /\ lifecycle = "started"
  /\ used # NoSettings
  /\ used # store
  /\ transcodingManager = FreshTable(used)
  /\ transcodingManager # FreshTable(store)

(***************************************************************************)
(* C3  After unregister nothing registered by the plugin exists, until     *)
(* register runs again.                                                    *)
(***************************************************************************)
C3_ClearedStaysCleared ==
  lifecycle = "stopped" => transcodingManager = EmptyManager

(***************************************************************************)
(* C4  Disabled-tier exclusion.  After a reload, a tier whose enabled flag *)
(* is not set in the settings of that reload has no profile in the table,  *)
(* and no video profile or video priority names its codec unless an        *)
(* enabled tier uses the same codec.                                       *)
(***************************************************************************)
C4_DisabledTierExcluded ==
  used # NoSettings =>
    \A i \in Tiers :
      ~IsEnabled(used, i) =>
        /\ \A n \in 1..Len(Profiles) :
             ~IsPrefix(TierPrefix(i), Profiles[n].profile)
        /\ (\A j \in Tiers : ~(IsEnabled(used, j) /\ VideoCodec(used, j) = VideoCodec(used, i)))
             => /\ \A n \in 1..Len(Profiles) :
                     ~(Profiles[n].kind = "video" /\ Profiles[n].encoder = VideoCodec(used, i))
                /\ \A n \in 1..Len(Priorities) :
                     ~(Priorities[n].kind = "video" /\ Priorities[n].encoder = VideoCodec(used, i))

\* A reload has run with one tier disabled, whose codec no enabled tier
\* uses, while another tier was compiled.
C4_Witness ==
  /\ used # NoSettings
  /\ Profiles # <<>>
  /\ \E i \in Tiers :
       /\ ~IsEnabled(used, i)
       /\ VideoCodec(used, i) # <<>>
       /\ \A j \in Tiers : IsEnabled(used, j) => VideoCodec(used, j) # VideoCodec(used, i)

(***************************************************************************)
(* C5  Fallback policy.  A tier that is enabled and has no video codec is  *)
(* not skipped: the table holds exactly one video profile for it, with     *)
(* encoder libx264 and '-crf 23' among its output options, and a warning   *)
(* was logged for it.                                                      *)
(***************************************************************************)
C5_FallbackPolicy ==
  used # NoSettings =>
    \A i \in Tiers :
      (IsEnabled(used, i) /\ VideoCodec(used, i) = <<>>) =>
        /\ Cardinality(TierProfiles("video", i)) = 1
        /\ \A n \in TierProfiles("video", i) :
             /\ Profiles[n].encoder = S_libx264
             /\ \E m \in 1..(Len(Profiles[n].outputOptions) - 1) :
                  /\ Profiles[n].outputOptions[m] = <<"-", "c", "r", "f">>
                  /\ Profiles[n].outputOptions[m + 1] = <<"2", "3">>
        /\ \E m \in 1..Len(log) : log[m] = <<"warn", i>>

(***************************************************************************)
(* C6  As claimed: when getSettings fails during a reload, the reload      *)
(* still completes normally, the table is the one compiled from the        *)
(* registered defaults, and a warning was logged.                          *)
(***************************************************************************)
C6_FailedFetchFallsBack ==
  fetchFailed =>
    /\ outcome = "resolved"
    /\ transcodingManager = FreshTable(InitialStore)
    /\ \E m \in 1..Len(log) : log[m][1] = "warn"

(***************************************************************************)
(* C6 as amended.  The step in which getSettings fails ends the reload     *)
(* with a rejection passed on to the caller, and leaves the table and the  *)
(* log exactly as they were: nothing is removed, compiled or reported.     *)
(***************************************************************************)
C6_FailedFetchRejectsAndKeepsTable ==
  [][ (pc = "awaiting" /\ fetchFailed')
        => /\ outcome' = "rejected"
           /\ transcodingManager' = transcodingManager
           /\ log' = log ]_vars

\* The fetch of a register call has failed after the only settings save of
\* the run, whose reload ran while the fetch was pending: the table of that
\* reload is still registered.
C6_Witness ==
  /\ fetchFailed
  /\ outcome = "rejected"
  /\ overlapped
  /\ saves = 1
  /\ used # NoSettings
  /\ Profiles # <<>>

(***************************************************************************)
(* C7  Idempotent reload.  A reload that runs with the same settings as    *)
(* the reload before it leaves the table as it was: same profiles, names,  *)
(* option lists and priorities in the same order, nothing added twice.     *)
(***************************************************************************)
C7_IdempotentReload ==
  [][ (/\ (pc = "fetched" /\ pc' = "idle") \/ saves' # saves
       /\ used # NoSettings
       /\ used' = used)
        => transcodingManager' = transcodingManager ]_vars

\* Two reloads in a row have used the same settings, and the table is not
\* empty.
C7_Witness ==
  /\ repeated
  /\ Profiles # <<>>
  /\ Priorities # <<>>

(***************************************************************************)
(* C8  As claimed: the video profile of every compiled tier has the        *)
(* inputParams tokens as input options and, as output options, the thread  *)
(* flag pair (when threadCount > 0), the '-c:v' selector pair, the         *)
(* codecParams tokens and the tokens of the resolved outputFilters (this   *)
(* variant has no outputFilters setting: no tokens).                       *)
(***************************************************************************)
C8_OptionsLayout ==
  used # NoSettings =>
    \A i \in Tiers :
      Compiled(used, i) =>
        /\ TierProfiles("video", i) # {}
        /\ \A n \in TierProfiles("video", i) :
             /\ Profiles[n].inputOptions = parseOptionsString(InputParamsStr(used, i))
             /\ Profiles[n].outputOptions =
                  (IF TranscodeThreads(used) > 0
                   THEN <<S_threads, NatToString(TranscodeThreads(used))>>
                   ELSE <<>>)
                  \o << <<"-", "c", ":", "v">>, VideoCodec(used, i) >>
                  \o parseOptionsString(CodecParamsStr(used, i))

(***************************************************************************)
(* C8 as amended.  The video profile of every compiled tier has as input   *)
(* options the thread flag pair (present exactly when threadCount > 0)     *)
(* followed by the inputParams tokens, and as output options exactly the   *)
(* codecParams tokens: no codec selector and no filter tokens.             *)
(***************************************************************************)
C8_OptionsLayoutAmended ==
  used # NoSettings =>
    \A i \in Tiers :
      Compiled(used, i) =>
        /\ TierProfiles("video", i) # {}
        /\ \A n \in TierProfiles("video", i) :
             /\ Profiles[n].inputOptions =
                  (IF TranscodeThreads(used) > 0
                   THEN <<S_threads, NatToString(TranscodeThreads(used))>>
                   ELSE <<>>)
                  \o parseOptionsString(InputParamsStr(used, i))
             /\ Profiles[n].outputOptions = parseOptionsString(CodecParamsStr(used, i))

\* A tier was compiled with a thread count above 0 and input parameters.
C8_Witness ==
  /\ used # NoSettings
  /\ TranscodeThreads(used) > 0
  /\ \E i \in Tiers :
       /\ Compiled(used, i)
       /\ InputParamsStr(used, i) # <<>>
       /\ TierProfiles("video", i) # {}

(***************************************************************************)
(* C9  As claimed: the priority list has exactly one entry per distinct    *)
(* video codec of an enabled tier and one per distinct audio codec used,   *)
(* each with score 2000, in order of first use, and no other entry.        *)
(***************************************************************************)
C9_OnePriorityPerCodec ==
  used # NoSettings =>
    /\ \A n \in 1..Len(Priorities) : Priorities[n].priority = 2000
    \* no encoder has two entries
    /\ \A m, n \in 1..Len(Priorities) :
         (Priorities[m].kind = Priorities[n].kind
            /\ Priorities[m].encoder = Priorities[n].encoder) => m = n
    \* every codec in use has an entry
    /\ \A i \in Tiers :
         Compiled(used, i) =>
           /\ \E n \in 1..Len(Priorities) :
                Priorities[n].kind = "video" /\ Priorities[n].encoder = VideoCodec(used, i)
           /\ \E n \in 1..Len(Priorities) :
                Priorities[n].kind = "audio" /\ Priorities[n].encoder = AudioCodec(used)
    \* every entry is for a codec in use
    /\ \A n \in 1..Len(Priorities) :
         \E i \in Tiers :
           /\ Compiled(used, i)
           /\ Priorities[n].encoder =
                IF Priorities[n].kind = "video" THEN VideoCodec(used, i) ELSE AudioCodec(used)
    \* video entries are in order of first use
    /\ \A m, n \in 1..Len(Priorities) :
         (m < n /\ Priorities[m].kind = "video" /\ Priorities[n].kind = "video") =>
           \E i \in Tiers :
             /\ Compiled(used, i) /\ VideoCodec(used, i) = Priorities[m].encoder
             /\ \A j \in Tiers :
                  (Compiled(used, j) /\ VideoCodec(used, j) = Priorities[n].encoder) => i <= j

(***************************************************************************)
(* C9 as amended.  The priority list holds, for each enabled tier with a   *)
(* video codec, in catalogue order, one video entry for the tier's codec   *)
(* followed by one audio entry for the audio codec, each with score 2000,  *)
(* and nothing else: a codec shared by k such tiers has k entries, a codec *)
(* of no such tier has none.                                               *)
(***************************************************************************)
C9_PriorityPairPerTier ==
  used # NoSettings =>
    LET tiers == CompiledTiers(used)
    IN /\ Len(Priorities) = 2 * Len(tiers)
       /\ \A n \in 1..Len(tiers) :
            /\ Priorities[2 * n - 1] =
                 [kind |-> "video", encoder |-> VideoCodec(used, tiers[n]), priority |-> 2000]
            /\ Priorities[2 * n] =
                 [kind |-> "audio", encoder |-> AudioCodec(used), priority |-> 2000]

\* Two tiers that share a video codec were compiled.
C9_Witness ==
  /\ used # NoSettings
  /\ Priorities # <<>>
  /\ \E i, j \in Tiers :
       /\ i # j
       /\ Compiled(used, i)
       /\ Compiled(used, j)
       /\ VideoCodec(used, i) = VideoCodec(used, j)

(***************************************************************************)
(* C10  Video/audio pairing.  Every enabled tier, also one without a video *)
(* codec, has exactly one video profile and exactly one audio profile,     *)
(* under the same profile name; the audio profile's encoder is the audio   *)
(* codec and its output options are the audioParams tokens; no audio       *)
(* profile is without a video profile of its name.                         *)
(***************************************************************************)
C10_Pairing ==
  used # NoSettings =>
    /\ \A i \in Tiers :
         IsEnabled(used, i) =>
           /\ Cardinality(TierProfiles("video", i)) = 1
           /\ Cardinality(TierProfiles("audio", i)) = 1
           /\ \A v \in TierProfiles("video", i) : \A a \in TierProfiles("audio", i) :
                /\ Profiles[a].profile = Profiles[v].profile
                /\ Profiles[a].encoder = AudioCodec(used)
                /\ Profiles[a].outputOptions = parseOptionsString(AudioParams(used))
    /\ \A a \in 1..Len(Profiles) :
         Profiles[a].kind = "audio" =>
           \E v \in 1..Len(Profiles) :
             Profiles[v].kind = "video" /\ Profiles[v].profile = Profiles[a].profile

(***************************************************************************)
(* parseOptionsString on its own.  The option string is the codecParams    *)
(* setting of the first tier, drawn from all short strings over a letter,  *)
(* the blank and the two quote characters; the startup reload applies      *)
(* parseOptionsString to it and registers the result as the output options *)
(* of the tier's video profile.                                            *)
(***************************************************************************)
\* Longest option string and filter string that is drawn.
MaxLen == 4

\* "a 'b c' d"
S_a_bc_d == <<"a", " ", "'", "b", " ", "c", "'", " ", "d">>

\* All strings over `alphabet` of length at most n.
StringsUpTo(alphabet, n) == UNION {[1..m -> alphabet] : m \in 0..n}

TokenizerAlphabet == {"a", " ", "\"", "'"}

TokenizerInputs == StringsUpTo(TokenizerAlphabet, MaxLen) \cup {S_a_bc_d}

\* Everything but the store, as it is before the plugin is registered.
InitOther ==
  /\ ctx = FALSE
  /\ listening = FALSE
  /\ pc = "idle"
  /\ snapshot = NoSettings
  /\ transcodingManager = EmptyManager
  /\ log = <<>>
  /\ outcome = "none"
  /\ fetchFailed = FALSE
  /\ lifecycle = "init"
  /\ used = NoSettings
  /\ overlapped = FALSE
  /\ repeated = FALSE
  /\ saves = 0
  /\ job = NoJob
  /\ hook = NoHook

InitTokenizer ==
  /\ store \in {[InitialStore EXCEPT ![<<FirstTier, "codec_params">>] = s] :
                  s \in TokenizerInputs}
  /\ InitOther

NextTokenizer ==
  \/ Register
  \/ FetchResolve
  \/ Resume

SpecTokenizer == InitTokenizer /\ [][NextTokenizer]_vars

\* Position of the first white-space character of s at or after position i,
\* Len(s) + 1 when there is none.
RECURSIVE NextSpace(_, _)
NextSpace(s, i) ==
  IF i > Len(s) \/ IsSpace(s[i]) THEN i ELSE NextSpace(s, i + 1)

\* Every quote character of s from position i on opens or closes a quoted
\* stretch that stands alone: it begins at the start of s or after white
\* space, and ends at the end of s or before white space.
RECURSIVE QuotedStandAlone(_, _)
QuotedStandAlone(s, i) ==
  IF i > Len(s) THEN TRUE
  ELSE IF IsSpace(s[i]) THEN QuotedStandAlone(s, i + 1)
  ELSE IF IsQuote(s[i])
       THEN LET j == IndexFrom(s, s[i], i + 1)
            IN /\ j # 0
               /\ (j = Len(s) \/ IsSpace(s[j + 1]))
               /\ QuotedStandAlone(s, j + 1)
  ELSE /\ \A n \in i..(NextSpace(s, i) - 1) : ~IsQuote(s[n])
       /\ QuotedStandAlone(s, NextSpace(s, i))

\* The tokens the tokenizer is said to yield for such a string: a quoted
\* stretch gives one token, the characters between its quotes; a run of
\* other characters between white space gives one token.
RECURSIVE StrippedTokens(_, _, _)
StrippedTokens(s, i, out) ==
  IF i > Len(s) THEN out
  ELSE IF IsSpace(s[i]) THEN StrippedTokens(s, i + 1, out)
  ELSE IF IsQuote(s[i])
       THEN LET j == IndexFrom(s, s[i], i + 1)
            IN StrippedTokens(s, j + 1, Append(out, SubSeq(s, i + 1, j - 1)))
  ELSE StrippedTokens(s, NextSpace(s, i), Append(out, SubSeq(s, i, NextSpace(s, i) - 1)))

(***************************************************************************)
(* C11  Tokenizer.  Once the startup reload has compiled the first tier,   *)
(* the output options of its video profile are the tokens of the tier's    *)
(* codecParams string: every quoted substring is one token, the enclosed   *)
(* characters without the quote characters, every run of unquoted white    *)
(* space separates tokens, and a string of white space only gives no       *)
(* token.  (Stated for the strings whose quoted substrings stand alone.)   *)
(***************************************************************************)
C11_Tokenizer ==
  (/\ used # NoSettings
   /\ Compiled(used, FirstTier)
   /\ QuotedStandAlone(used[<<FirstTier, "codec_params">>], 1)) =>
    \A v \in TierProfiles("video", FirstTier) :
      Profiles[v].outputOptions =
        StrippedTokens(used[<<FirstTier, "codec_params">>], 1, <<>>)

(***************************************************************************)
(* The transcoding-hook variant (src/src/main.ts, lines 1-177): the plugin *)
(* registers its settings and a handler for 'on-video-transcoding'; the    *)
(* host calls the handler with the options of a transcoding, the handler   *)
(* awaits settings.getAll(), then rewrites the profiles of the options     *)
(* from the settings it reads with settings.get and returns them.          *)
(***************************************************************************)
S_crf_veryfast == <<"-", "c", "r", "f", " ", "2", "3", " ", "-", "p", "r", "e", "s", "e", "t", " ", "v", "e", "r", "y", "f", "a", "s", "t">>
S_scale == <<"-", "v", "f", " ", "\"", "s", "c", "a", "l", "e", "=", "w", "=", "%", "w", ":", "h", "=", "%", "h", "\"">>
S_pw == <<"%", "w">>
S_ph == <<"%", "h">>
S_cv == <<" ", "-", "c", ":", "v", " ">>
S_ca == <<" ", "-", "c", ":", "a", " ">>
S_sp == <<" ">>
S_p == <<"p">>
S_in == <<"i", "n">>

HookTierFields == TierFields \cup {"output_filters"}

\* The names of the settings in registeredSettings.
hookSettingNames == ({0} \X GlobalFields) \cup (Tiers \X HookTierFields)

\* The `default` of each setting in registeredSettings; transcode_threads
\* is of type number.
HookDefaultValue(k) ==
  LET f == k[2]
  IN CASE f = "audio_codec" -> S_aac
       [] f = "audio_params" -> S_b_a_128k
       [] f = "transcode_threads" -> 0
       [] f = "enabled" -> TRUE
       [] f = "codec" -> S_libx264
       [] f = "input_params" -> <<>>
       [] f = "codec_params" -> S_crf_veryfast
       [] f = "output_filters" -> <<>>

\* The values the administrator can give a setting in the model.
HookChoices(k) ==
  LET f == k[2]
  IN CASE f = "transcode_threads" -> {0, 2}
       [] f = "enabled" -> BOOLEAN
       [] f = "output_filters" -> {<<>>, S_scale}
       [] OTHER -> {HookDefaultValue(k)}

\* The store after this.settings.register(registeredSettings) on a fresh
\* installation.
HookStore == [k \in hookSettingNames |-> HookDefaultValue(k)]

RECURSIVE ReplaceFirst(_, _, _)
\* Mutant: the regular expression has no g flag, only the first occurrence
\* is replaced.
ReplaceFirst(s, pat, rep) ==
  IF Len(s) < Len(pat) THEN s
  ELSE IF SubSeq(s, 1, Len(pat)) = pat
       THEN rep \o SubSeq(s, Len(pat) + 1, Len(s))
  ELSE <<Head(s)>> \o ReplaceFirst(Tail(s), pat, rep)

RECURSIVE ReplaceAll(_, _, _)
\* s.replace(/pat/g, rep) for a pattern of literal characters and a
\* replacement without '$': every occurrence found scanning left to right,
\* the scan going on behind the occurrence.
ReplaceAll(s, pat, rep) ==
  IF Len(s) < Len(pat) THEN s
  ELSE IF SubSeq(s, 1, Len(pat)) = pat
       THEN rep \o ReplaceAll(SubSeq(s, Len(pat) + 1, Len(s)), pat, rep)
  ELSE <<Head(s)>> \o ReplaceAll(Tail(s), pat, rep)

RECURSIVE TrimStart(_)
TrimStart(s) == IF s # <<>> /\ IsSpace(Head(s)) THEN TrimStart(Tail(s)) ELSE s

RECURSIVE TrimEnd(_)
TrimEnd(s) ==
  IF s # <<>> /\ IsSpace(s[Len(s)]) THEN TrimEnd(SubSeq(s, 1, Len(s) - 1)) ELSE s

\* String.prototype.trim()
Trim(s) == TrimEnd(TrimStart(s))

\* const resolutionId = profile.resolution.id + 'p'
ResolutionId(profile) == NatToString(profile.resolution.id) \o S_p

\* The tier whose settings are named `resolution_${resolutionId}_...`;
\* 0 when no setting has such a name.
TierOf(resolutionId) ==
  IF \E i \in 1..Len(resolutions) : resolutions[i] = resolutionId
  THEN CHOOSE i \in 1..Len(resolutions) : resolutions[i] = resolutionId
  ELSE 0

\* settings.get(`resolution_${resolutionId}_enabled`), tested for
\* truthiness: a setting that does not exist reads as undefined.
HookIsEnabled(profile, settings) ==
  LET k == <<TierOf(ResolutionId(profile)), "enabled">>
  IN k \in DOMAIN settings /\ settings[k]

\* The placeholders of a non-empty outputFilters replaced: first every %w,
\* then every %h.
ResolvePlaceholders(outputFilters, width, height) ==
  IF outputFilters # <<>>
  THEN ReplaceAll(ReplaceAll(outputFilters, S_pw, NatToString(width)),
                  S_ph, NatToString(height))
  ELSE outputFilters

\* finalArguments before it is trimmed.
FinalArguments(config, inputParams, videoCodec, codecParams, outputFilters) ==
  (IF config[<<0, "transcode_threads">>] > 0
   THEN S_threads \o S_sp \o NatToString(config[<<0, "transcode_threads">>]) \o S_sp
   ELSE <<>>)
    \o inputParams \o S_cv \o videoCodec \o S_sp \o codecParams \o S_sp
    \o outputFilters \o S_ca \o config[<<0, "audio_codec">>] \o S_sp
    \o config[<<0, "audio_params">>]

\* What the callback of map returns for a profile of an enabled tier: the
\* profile with the arguments of its ffmpegProfile replaced.
HookProfile(profile, config, settings) ==
  LET i == TierOf(ResolutionId(profile))
      outputFilters ==
        ResolvePlaceholders(settings[<<i, "output_filters">>],
                            profile.resolution.width, profile.resolution.height)
  IN [profile EXCEPT !.ffmpegProfile =
        [@ EXCEPT !.arguments =
           Trim(FinalArguments(config, settings[<<i, "input_params">>],
                               settings[<<i, "codec">>],
                               settings[<<i, "codec_params">>], outputFilters))]]

RECURSIVE NewProfilesKeepsDisabled(_, _, _)
\* Mutant: the profile of a disabled tier is returned as it came.
NewProfilesKeepsDisabled(profiles, config, settings) ==
  IF profiles = <<>> THEN <<>>
  ELSE (IF HookIsEnabled(Head(profiles), settings)
        THEN <<HookProfile(Head(profiles), config, settings)>>
        ELSE <<Head(profiles)>>)
       \o NewProfilesKeepsDisabled(Tail(profiles), config, settings)

RECURSIVE NewProfiles(_, _, _)
\* options.profiles.map(...).filter(Boolean): the callback returns null for
\* a profile whose tier is not enabled, and filter drops the nulls.
NewProfiles(profiles, config, settings) ==
  IF profiles = <<>> THEN <<>>
  ELSE (IF HookIsEnabled(Head(profiles), settings)
        THEN <<HookProfile(Head(profiles), config, settings)>>
        ELSE <<>>)
       \o NewProfiles(Tail(profiles), config, settings)

\* A profile the host passes for tier i: the resolution of the tier in
\* 16:9 and the host's own ffmpegProfile.
ProfileOf(i) ==
  LET height == ParseIntOrZero(resolutions[i])
  IN [resolution |-> [id |-> height, width |-> (height * 16) \div 9, height |-> height],
      ffmpegProfile |-> [name |-> S_default, arguments |-> <<>>]]

\* A profile the host passes for a resolution that is no tier of the plugin.
ProfileOfNoTier ==
  [resolution |-> [id |-> 0, width |-> 0, height |-> 0],
   ffmpegProfile |-> [name |-> S_default, arguments |-> <<>>]]

\* The profiles of all tiers of the model, in catalogue order.
TierProfileList == [n \in 1..NumTiers |-> ProfileOf(FirstTier + n - 1)]

\* The options values the host calls the handler with: the tiers in
\* catalogue order with a foreign profile behind the first, and the tiers
\* in reverse order.
HookOptions ==
  {[input |-> S_in,
    profiles |-> <<Head(TierProfileList), ProfileOfNoTier>> \o Tail(TierProfileList)],
   [input |-> S_in,
    profiles |-> [n \in 1..NumTiers |-> TierProfileList[NumTiers + 1 - n]]]}

\* register(): the settings are registered and the handler is installed.
RegisterHook ==
  /\ lifecycle # "started"
  /\ lifecycle' = "started"
  /\ UNCHANGED <<store, ctx, listening, pc, snapshot, transcodingManager, log,
                 outcome, fetchFailed, used, overlapped, repeated, saves, job, hook>>

\* The host calls the handler with `options`; the handler runs up to
\* `await settings.getAll()`.  One call is in flight at a time.
OnVideoTranscoding(options) ==
  /\ lifecycle = "started"
  /\ hook.pc = "idle"
  /\ hook' = [pc |-> "awaiting", options |-> options, config |-> NoSettings,
              result |-> NoOptions, used |-> NoSettings]
  /\ UNCHANGED <<store, ctx, listening, pc, snapshot, transcodingManager, log,
                 outcome, fetchFailed, lifecycle, used, overlapped, repeated, saves,
                 job>>

\* settings.getAll() resolves with the settings of the store.
GetAllResolve ==
  /\ hook.pc = "awaiting"
  /\ hook' = [hook EXCEPT !.pc = "fetched", !.config = store]
  /\ UNCHANGED <<store, ctx, listening, pc, snapshot, transcodingManager, log,
                 outcome, fetchFailed, lifecycle, used, overlapped, repeated, saves,
                 job>>

\* settings.getAll() rejects: the handler rejects and returns nothing.
GetAllReject ==
  /\ hook.pc = "awaiting"
  /\ hook' = [hook EXCEPT !.pc = "idle"]
  /\ UNCHANGED <<store, ctx, listening, pc, snapshot, transcodingManager, log,
                 outcome, fetchFailed, lifecycle, used, overlapped, repeated, saves,
                 job>>

\* The handler after the await, lines 116-164: settings.get reads the store
\* as it is now; the options are returned with the new profiles.
HookReturn ==
  /\ hook.pc = "fetched"
  /\ hook' = [hook EXCEPT
                !.pc = "idle",
                !.result = [hook.options EXCEPT
                              !.profiles = NewProfiles(hook.options.profiles,
                                                       hook.config, store)],
                !.used = store]
  /\ UNCHANGED <<store, ctx, listening, pc, snapshot, transcodingManager, log,
                 outcome, fetchFailed, lifecycle, used, overlapped, repeated, saves,
                 job>>

\* The administrator saves setting k with value v; this variant registers
\* no listener.
SaveHook(k, v) ==
  /\ lifecycle = "started"
  /\ saves < MaxSaves
  /\ saves' = saves + 1
  /\ store' = [store EXCEPT ![k] = v]
  /\ UNCHANGED <<ctx, listening, pc, snapshot, transcodingManager, log, outcome,
                 fetchFailed, lifecycle, used, overlapped, repeated, job, hook>>

\* unregister(): the handler is removed; a call in flight goes on.
UnregisterHook ==
  /\ lifecycle = "started"
  /\ lifecycle' = "stopped"
  /\ UNCHANGED <<store, ctx, listening, pc, snapshot, transcodingManager, log,
                 outcome, fetchFailed, used, overlapped, repeated, saves, job, hook>>

InitHook ==
  /\ store = HookStore
  /\ InitOther

NextHook ==
  \/ RegisterHook
  \/ \E options \in HookOptions : OnVideoTranscoding(options)
  \/ GetAllResolve
  \/ GetAllReject
  \/ HookReturn
  \/ \E k \in hookSettingNames : \E v \in HookChoices(k) : SaveHook(k, v)
  \/ UnregisterHook

SpecHook == InitHook /\ [][NextHook]_vars

(***************************************************************************)
(* The placeholder replacement on its own.  The filter string is the       *)
(* outputFilters setting of the first tier, drawn from all short strings   *)
(* over '%', 'w', 'h' and one other character, and the example of the      *)
(* setting's description; the handler is called for one tier at a time.    *)
(***************************************************************************)
FilterAlphabet == {"%", "w", "h", "x"}

FilterInputs == StringsUpTo(FilterAlphabet, MaxLen) \cup {S_scale}

PlaceholderOptions == {[input |-> S_in, profiles |-> <<ProfileOf(i)>>] : i \in Tiers}

InitPlaceholder ==
  /\ store \in {[HookStore EXCEPT ![<<FirstTier, "output_filters">>] = s] :
                  s \in FilterInputs}
  /\ InitOther

NextPlaceholder ==
  \/ RegisterHook
  \/ \E options \in PlaceholderOptions : OnVideoTranscoding(options)
  \/ GetAllResolve
  \/ HookReturn

SpecPlaceholder == InitPlaceholder /\ [][NextPlaceholder]_vars

\* s with every %w replaced by `width` and every %h by `height` in one pass
\* from left to right, every other character kept.
RECURSIVE Substituted(_, _, _)
Substituted(s, width, height) ==
  IF s = <<>> THEN <<>>
  ELSE IF Len(s) >= 2 /\ SubSeq(s, 1, 2) = S_pw
       THEN NatToString(width) \o Substituted(SubSeq(s, 3, Len(s)), width, height)
  ELSE IF Len(s) >= 2 /\ SubSeq(s, 1, 2) = S_ph
       THEN NatToString(height) \o Substituted(SubSeq(s, 3, Len(s)), width, height)
  ELSE <<Head(s)>> \o Substituted(Tail(s), width, height)

\* pat occurs in s.
Occurs(pat, s) ==
  \E n \in 1..(Len(s) - Len(pat) + 1) : SubSeq(s, n, n + Len(pat) - 1) = pat

(***************************************************************************)
(* C12  Placeholder resolution.  In the arguments the handler returns for  *)
(* a profile, the tier's outputFilters appear with every %w replaced by    *)
(* the width and every %h by the height of the profile's resolution and    *)
(* every other character unchanged, between the codec parameters and the   *)
(* audio selector; the arguments, which are never split before they are    *)
(* returned, contain no %w and no %h.                                      *)
(***************************************************************************)
C12_PlaceholderResolution ==
  \A n \in 1..Len(hook.result.profiles) :
    LET profile == hook.result.profiles[n]
        i == TierOf(ResolutionId(profile))
    IN /\ profile.ffmpegProfile.arguments =
            Trim(FinalArguments(hook.config, hook.used[<<i, "input_params">>],
                   hook.used[<<i, "codec">>], hook.used[<<i, "codec_params">>],
                   Substituted(hook.used[<<i, "output_filters">>],
                               profile.resolution.width, profile.resolution.height)))
       /\ ~Occurs(S_pw, profile.ffmpegProfile.arguments)
       /\ ~Occurs(S_ph, profile.ffmpegProfile.arguments)

\* The handler has returned the profile of the first tier, whose
\* outputFilters hold both placeholders.
C12_Witness ==
  /\ Len(hook.result.profiles) = 1
  /\ TierOf(ResolutionId(hook.result.profiles[1])) = FirstTier
  /\ Occurs(S_pw, hook.used[<<FirstTier, "output_filters">>])
  /\ Occurs(S_ph, hook.used[<<FirstTier, "output_filters">>])
  /\ Occurs(NatToString(hook.result.profiles[1].resolution.width),
            hook.result.profiles[1].ffmpegProfile.arguments)

(***************************************************************************)
(* C16  Frame of the handler.  When the handler has returned, the profiles *)
(* of the result are the profiles of the incoming options whose tier is    *)
(* enabled, in their order, each equal to the incoming profile but for the *)
(* arguments of its ffmpegProfile; the result equals the incoming options  *)
(* in every field but profiles.                                            *)
(***************************************************************************)
C16_HookFrame ==
  hook.result # NoOptions =>
    LET EnabledTier(profile) == HookIsEnabled(profile, hook.used)
        kept == SelectSeq(hook.options.profiles, EnabledTier)
        Blank(profile) == [profile EXCEPT !.ffmpegProfile.arguments = <<>>]
    IN /\ Len(hook.result.profiles) = Len(kept)
       /\ \A n \in 1..Len(kept) : Blank(hook.result.profiles[n]) = Blank(kept[n])
       /\ [hook.result EXCEPT !.profiles = <<>>] = [hook.options EXCEPT !.profiles = <<>>]

\* The handler has returned fewer profiles than it got, but at least two,
\* after a save that came while it was awaiting the settings.
C16_Witness ==
  /\ hook.result # NoOptions
  /\ Len(hook.result.profiles) >= 2
  /\ Len(hook.result.profiles) < Len(hook.options.profiles)
  /\ hook.used # hook.config

(***************************************************************************)
(* C13  Quiescent consistency.  With notifications that carry all the      *)
(* settings: whenever the plugin is registered, no reload is in progress   *)
(* and the startup reload has completed, the manager holds exactly what    *)
(* one compilation of the store's current settings registers.              *)
(***************************************************************************)
C13_QuiescentConsistency ==
  (lifecycle = "started" /\ pc = "idle" /\ outcome = "resolved") =>
    transcodingManager = FreshTable(store)

(***************************************************************************)
(* The live-reload plugin on a host whose notification carries either all  *)
(* the settings or only the setting that was saved.                        *)
(***************************************************************************)
NextPartial ==
  \/ Register
  \/ FetchResolve
  \/ FetchReject
  \/ Resume
  \/ \E k \in settingNames : \E v \in Choices(k) : \E partial \in BOOLEAN :
       SettingsChange(k, v, partial)
  \/ Unregister

SpecPartial == Init /\ [][NextPartial]_vars

(***************************************************************************)
(* C14  Reload from a partial notification.  After the reload a            *)
(* settings-change notification triggers, every tier that is enabled and   *)
(* has a video codec in the store has a video and an audio profile in the  *)
(* manager, whether or not the notification mentioned the tier: what the   *)
(* notification leaves out is taken from the store.                        *)
(***************************************************************************)
C14_PartialNotification ==
  [][saves' # saves =>
       \A i \in Tiers :
         Compiled(store', i) =>
           (TierProfiles("video", i) # {} /\ TierProfiles("audio", i) # {})']_vars

(***************************************************************************)
(* The single-profile-name variant (src/src/main.ts, lines 178-317):       *)
(* register adds one audio and one video profile named PROFILE_NAME whose  *)
(* builders fetch the settings when the host calls them.  A job of the     *)
(* host picks the profile of its kind from the manager, then calls the     *)
(* builder and uses the options it resolves with.                          *)
(***************************************************************************)
PROFILE_NAME == <<"h", "u", "m", "a", "n", "-", "t", "r", "a", "n", "s", "c", "o", "d", "i", "n", "g">>
S_placeholder == <<"p", "l", "a", "c", "e", "h", "o", "l", "d", "e", "r", "-", "v", "i", "d", "e", "o", "-", "c", "o", "d", "e", "c">>
S_b_a_192k == <<"-", "b", ":", "a", " ", "1", "9", "2", "k">>
S_preset_fast == <<"-", "c", "r", "f", " ", "2", "3", " ", "-", "p", "r", "e", "s", "e", "t", " ", "f", "a", "s", "t">>
S_preset_medium == <<"-", "c", "r", "f", " ", "2", "3", " ", "-", "p", "r", "e", "s", "e", "t", " ", "m", "e", "d", "i", "u", "m">>
S_c_v == <<"-", "c", ":", "v">>
S_crf == <<"-", "c", "r", "f">>
S_23 == <<"2", "3">>

StaticTierFields == {"codec", "input_params", "codec_params"}

\* const settingNames = [ 'audio_codec', 'audio_params', ... ]
staticSettingNames ==
  ({0} \X {"audio_codec", "audio_params"}) \cup (Tiers \X StaticTierFields)

\* The `default` of each setting in settingsToRegister.
StaticDefaultValue(k) ==
  LET i == k[1]
      f == k[2]
  IN CASE f = "audio_codec" -> S_aac
       [] f = "audio_params" -> S_b_a_192k
       [] f = "codec" -> S_libx264
       [] f = "input_params" -> <<>>
       [] f = "codec_params" ->
            IF ParseIntOrZero(resolutions[i]) >= 1080 THEN S_preset_medium
            ELSE S_preset_fast

\* The values the administrator can give a setting in the model.
StaticChoices(k) ==
  LET f == k[2]
  IN CASE f = "audio_params" -> {S_b_a_192k, <<>>}
       [] f = "codec" -> {S_libx264, S_h264_qsv, <<>>}
       [] f = "codec_params" -> {StaticDefaultValue(k), S_x264opts}
       [] OTHER -> {StaticDefaultValue(k)}

\* The store of a fresh installation after the registerSetting calls.
StaticStore == [k \in staticSettingNames |-> StaticDefaultValue(k)]

\* The builder of the audio profile, resumed with the fetched settings.
AudioBuilder(settings) ==
  [inputOptions |-> <<>>,
   outputOptions |-> parseOptionsString(StringOr(settings, <<0, "audio_params">>, <<>>))]

\* The builder of the video profile, resumed with the fetched settings;
\* `resolution` is vodOptions.resolution, the height.
VideoBuilder(settings, resolution) ==
  LET i == TierOf(NatToString(resolution) \o S_p)
      codec == StringOr(settings, <<i, "codec">>, <<>>)
  IN IF codec = <<>>
     THEN [inputOptions |-> <<>>, outputOptions |-> <<S_c_v, S_libx264, S_crf, S_23>>]
     ELSE [inputOptions |-> parseOptionsString(InputParamsStr(settings, i)),
           outputOptions |-> <<S_c_v, codec>> \o parseOptionsString(CodecParamsStr(settings, i))]

\* What the builder of the profile of `kind` resolves with.
BuildOptions(kind, settings, resolution) ==
  IF kind = "audio" THEN AudioBuilder(settings) ELSE VideoBuilder(settings, resolution)

\* The two addVODProfile and the two addVODEncoderPriority calls of
\* register; a profile is recorded by kind, encoder and name, its builder
\* is AudioBuilder or VideoBuilder by kind.
StaticTable ==
  addVODEncoderPriority(
    addVODEncoderPriority(
      [profiles |-> << [kind |-> "audio", encoder |-> S_aac, profile |-> PROFILE_NAME],
                       [kind |-> "video", encoder |-> S_placeholder, profile |-> PROFILE_NAME] >>,
       priorities |-> <<>>],
      "audio", S_aac, PRIORITY),
    "video", S_placeholder, PRIORITY)

\* The heights the host transcodes to.
JobResolutions == {ParseIntOrZero(resolutions[i]) : i \in Tiers}

\* register(): the settings are registered, then the two profiles and the
\* two priorities.
RegisterStatic ==
  /\ lifecycle # "started"
  /\ lifecycle' = "started"
  /\ transcodingManager' =
       [profiles |-> transcodingManager.profiles \o StaticTable.profiles,
        priorities |-> transcodingManager.priorities \o StaticTable.priorities]
  /\ UNCHANGED <<store, ctx, listening, pc, snapshot, log, outcome, fetchFailed,
                 used, overlapped, repeated, saves, job, hook>>

\* A job of the host asks the manager for the profile of `kind` and gets
\* its builder.  One job is followed at a time.
JobQuery(kind, resolution) ==
  /\ job.pc \in {"none", "done"}
  /\ \E n \in 1..Len(transcodingManager.profiles) :
       transcodingManager.profiles[n].kind = kind
  /\ job' = [pc |-> "queried", kind |-> kind, resolution |-> resolution,
             atQuery |-> store, inputOptions |-> <<>>, outputOptions |-> <<>>]
  /\ UNCHANGED <<store, ctx, listening, pc, snapshot, transcodingManager, log,
                 outcome, fetchFailed, lifecycle, used, overlapped, repeated, saves,
                 hook>>

\* The job calls the builder, which runs up to `await
\* settingsManager.getSettings(...)`.
BuilderCall ==
  /\ job.pc = "queried"
  /\ job' = [job EXCEPT !.pc = "awaiting"]
  /\ UNCHANGED <<store, ctx, listening, pc, snapshot, transcodingManager, log,
                 outcome, fetchFailed, lifecycle, used, overlapped, repeated, saves,
                 hook>>

\* getSettings resolves with the settings of the store; the builder
\* resolves with the options the job uses.
BuilderResolve ==
  /\ job.pc = "awaiting"
  /\ job' = [job EXCEPT
               !.pc = "done",
               !.inputOptions = BuildOptions(job.kind, store, job.resolution).inputOptions,
               !.outputOptions = BuildOptions(job.kind, store, job.resolution).outputOptions]
  /\ UNCHANGED <<store, ctx, listening, pc, snapshot, transcodingManager, log,
                 outcome, fetchFailed, lifecycle, used, overlapped, repeated, saves,
                 hook>>

\* getSettings rejects: the builder rejects and the job has no options.
BuilderReject ==
  /\ job.pc = "awaiting"
  /\ job' = NoJob
  /\ UNCHANGED <<store, ctx, listening, pc, snapshot, transcodingManager, log,
                 outcome, fetchFailed, lifecycle, used, overlapped, repeated, saves,
                 hook>>

\* The administrator saves setting k with value v; this variant registers
\* no listener.
SaveStatic(k, v) ==
  /\ lifecycle = "started"
  /\ saves < MaxSaves
  /\ saves' = saves + 1
  /\ store' = [store EXCEPT ![k] = v]
  /\ UNCHANGED <<ctx, listening, pc, snapshot, transcodingManager, log, outcome,
                 fetchFailed, lifecycle, used, overlapped, repeated, job, hook>>

\* unregister(): removes the registrations; a builder a job holds stays
\* callable.
UnregisterStatic ==
  /\ lifecycle = "started"
  /\ lifecycle' = "stopped"
  /\ transcodingManager' = removeAllProfilesAndEncoderPriorities(transcodingManager)
  /\ UNCHANGED <<store, ctx, listening, pc, snapshot, log, outcome, fetchFailed,
                 used, overlapped, repeated, saves, job, hook>>

InitStatic ==
  /\ store = StaticStore
  /\ InitOther

NextStatic ==
  \/ RegisterStatic
  \/ \E kind \in {"audio", "video"} : \E resolution \in JobResolutions :
       JobQuery(kind, resolution)
  \/ BuilderCall
  \/ BuilderResolve
  \/ BuilderReject
  \/ \E k \in staticSettingNames : \E v \in StaticChoices(k) : SaveStatic(k, v)
  \/ UnregisterStatic

SpecStatic == InitStatic /\ [][NextStatic]_vars

(***************************************************************************)
(* C15  In-flight readers.  The options a job uses are the options         *)
(* compiled from the settings that were current when the job obtained its  *)
(* profile from the manager, whatever was saved in between.                *)
(***************************************************************************)
C15_InFlightUnaffected ==
  job.pc = "done" =>
    /\ job.inputOptions = BuildOptions(job.kind, job.atQuery, job.resolution).inputOptions
    /\ job.outputOptions = BuildOptions(job.kind, job.atQuery, job.resolution).outputOptions

=============================================================================
